---- MODULE Spec2Model ----
(***************************************************************************)
(* Sokoban states (src/game_state.py) and the search strategies over them  *)
(* (src/modules/solver.py).                                                *)
(*                                                                         *)
(* A GameState object is a record of the fields __init__ assigns plus an   *)
(* `id`, the identity of the Python object: GameState defines neither      *)
(* __eq__ nor __hash__ nor __lt__, so set membership and tuple comparison  *)
(* go by identity.  Positions are Python's (row, column) pairs, 0-based;   *)
(* a map is a sequence of rows, each a sequence of one-character strings.  *)
(***************************************************************************)
EXTENDS Integers, Sequences, FiniteSets, TLC

VARIABLES
    initial_state,  \* Solver.initial_state
    strategy,       \* Solver.strategy
    solution,       \* Solver.solution
    time,           \* Solver.time: "None" or "set"
    pc,             \* where the program is
    frontier,       \* local of bfs/dfs/astar/ucs/greedy: the queue's items
    visited,        \* local: set of GameState objects
    current_state,  \* local: the popped state; receiver of the last move
    path,           \* local: the popped path; directions moved so far
    new_state,      \* local: result of the last move
    direction,      \* local: index into Directions of the for loop
    ret,            \* value returned by the strategy method
    raised,         \* exception that ended the program, or "no"
    nextId,         \* identity given to the next object constructed
    pops,           \* number of frontier.get() calls of the current run
    prev,           \* solution of an earlier Solver on the same initial_state
    reach,          \* auxiliary, recorded for a search: number of grid
                    \* configurations reachable from the initial grid,
                    \* whether one of them is solved, the least number of
                    \* moves that lead to one, and the number of moves that
                    \* lead from an unsolved one of them to another grid
    memory,         \* the row lists of the maps, by address: memory[a] is the
                    \* content of the list object at address a
    objects         \* the GameState objects made, each with the addresses
                    \* of the rows of its map

vars == << initial_state, strategy, solution, time, pc, frontier, visited,
           current_state, path, new_state, direction, ret, raised, nextId,
           pops, prev, reach, memory, objects >>

----------------------------------------------------------------------------
(* Bounds of the model *)

\* number of interior cells of an initial grid
MaxCells == 4
\* frontier.get() calls after which a run is no longer followed
MaxPops == 10
\* moves applied in a row by MoveSpec
MaxMoves == 2
\* rows of the interior of an initial grid
MaxHeight == 2

----------------------------------------------------------------------------
(* Python values *)

None == << "None" >>

\* math.inf: larger than every finite cost; inf + x = inf
inf == 1000000

add(a, b) == IF a >= inf \/ b >= inf THEN inf ELSE a + b

abs(x) == IF x < 0 THEN -x ELSE x

min(a, b) == IF b < a THEN b ELSE a

\* Python's index i into a sequence of length n, as a 1-based index; 0: IndexError
Index(i, n) ==
    IF i >= 0 /\ i < n THEN i + 1
    ELSE IF i < 0 /\ -i <= n THEN n + i + 1
    ELSE 0

\* map[i][j] can be evaluated
Subscriptable(map, position) ==
    /\ Index(position[1], Len(map)) # 0
    /\ Index(position[2], Len(map[Index(position[1], Len(map))])) # 0

\* map[i][j]
Get(map, position) ==
    LET r == Index(position[1], Len(map))
    IN  map[r][Index(position[2], Len(map[r]))]

\* map[i][j] = symbol
Set(map, position, symbol) ==
    LET r == Index(position[1], Len(map))
    IN  [map EXCEPT ![r][Index(position[2], Len(map[r]))] = symbol]

----------------------------------------------------------------------------
(* class GameState *)

\* the (i, j) of `for i in range(height): for j in range(width)`, in order
Scan(height, width) ==
    [k \in 1..(height * width) |-> << (k - 1) \div width, (k - 1) % width >>]

find_player(map) ==
    LET hits == SelectSeq(Scan(Len(map), Len(map[1])),
                          LAMBDA p : Get(map, p) \in { "@", "+" })
    IN  IF hits = << >> THEN None ELSE hits[1]

find_boxes(map) ==
    SelectSeq(Scan(Len(map), Len(map[1])),
              LAMBDA p : Get(map, p) \in { "$", "*" })

find_targets_no_star(map) ==
    SelectSeq(Scan(Len(map), Len(map[1])), LAMBDA p : Get(map, p) = ".")

find_targets(map) ==
    SelectSeq(Scan(Len(map), Len(map[1])),
              LAMBDA p : Get(map, p) \in { ".", "*" })

Elems(seq) == { seq[k] : k \in 1..Len(seq) }

\* all(box in targets for box in boxes)
all_in(boxes, targets) == \A k \in 1..Len(boxes) : boxes[k] \in Elems(targets)

\* The object GameState(map, current_cost) with identity id.  The scans of
\* find_player, find_boxes and find_targets run over the map's dimensions.
GameState(map, current_cost, id) ==
    [ map          |-> map,
      player       |-> find_player(map),
      boxes        |-> find_boxes(map),
      targets      |-> find_targets(map),
      is_solved    |-> all_in(find_boxes(map), find_targets(map)),
      current_cost |-> current_cost,
      height       |-> Len(map),
      width        |-> Len(map[1]),
      id           |-> id ]

\* a comparison that no cell satisfies
is_wall_never(self, position) == Get(self.map, position) = " #"

is_wall(self, position) == Get(self.map, position) = "#"

is_box(self, position) ==
    Get(self.map, position) = "$" \/ Get(self.map, position) = "*"

is_target(self, position) ==
    Get(self.map, position) = "." \/ Get(self.map, position) = "*"

is_empty(self, position) == Get(self.map, position) = " "

RECURSIVE manhattan_loop(_, _, _, _)
manhattan_loop(box_position, target_positions, k, min_distance) ==
    IF k > Len(target_positions) THEN min_distance
    ELSE LET t == target_positions[k]
             distance == abs(box_position[1] - t[1]) + abs(box_position[2] - t[2])
         IN  manhattan_loop(box_position, target_positions, k + 1,
                            min(min_distance, distance))

manhattan_distance(self, box_position, target_positions) ==
    manhattan_loop(box_position, target_positions, 1, inf)

RECURSIVE heuristic_loop(_, _, _)
heuristic_loop(self, k, heuristic) ==
    IF k > Len(self.boxes) THEN heuristic
    ELSE heuristic_loop(self, k + 1,
             add(heuristic, manhattan_distance(self, self.boxes[k], self.targets)))

get_heuristic(self) == heuristic_loop(self, 1, 0)

get_current_cost(self) == self.current_cost

get_total_cost(self) == add(get_current_cost(self), get_heuristic(self))

check_solved(self) == all_in(self.boxes, self.targets)

Directions == << "U", "D", "L", "R" >>

\* what a call returns: a value, or the exception it raised
Return(value) == [ value |-> value, raised |-> "no" ]
Raise(exception, self) == [ value |-> self, raised |-> exception ]

\* the map after a push, the box never becoming box-on-target
pushed_map_plain_box(self, new_position, new_box_position) ==
    LET m1 == Set(self.map, self.player,
                  IF Get(self.map, self.player) = "+" THEN "." ELSE " ")
        m2 == Set(m1, new_position,
                  IF Get(self.map, new_position) = "." THEN "+" ELSE "@")
    IN  Set(m2, new_box_position, "$")

\* lines 165-175: the map after a push
pushed_map(self, new_position, new_box_position) ==
    LET m1 == Set(self.map, self.player,
                  IF Get(self.map, self.player) = "+" THEN "." ELSE " ")
        m2 == Set(m1, new_position,
                  IF Get(self.map, new_position) = "." THEN "+" ELSE "@")
    IN  Set(m2, new_box_position,
            IF Get(self.map, new_box_position) = "." THEN "*" ELSE "$")

\* lines 180-187: the map after a step
stepped_map(self, new_position) ==
    LET m1 == Set(self.map, self.player,
                  IF Get(self.map, self.player) = "+" THEN "." ELSE " ")
    IN  Set(m1, new_position,
            IF Get(self.map, new_position) = "." THEN "+" ELSE "@")

\* line 164, without the test for a second box
can_push_no_box_test(self, new_box_position) ==
    ~ is_wall(self, new_box_position)

\* line 164
can_push(self, new_box_position) ==
    ~ is_wall(self, new_box_position) /\ ~ is_box(self, new_box_position)

\* lines 148-189 up to the construction of the result: the map of the state
\* move returns, and whether that state is self
moved(self, dir) ==
    IF self.player = None THEN Raise("TypeError", self)
    ELSE
    LET i == self.player[1]
        j == self.player[2]
    IN
    IF dir \notin { "U", "D", "L", "R" } THEN Raise("ValueError", self)
    ELSE
    LET new_position ==
            CASE dir = "U" -> << i - 1, j >>
              [] dir = "D" -> << i + 1, j >>
              [] dir = "L" -> << i, j - 1 >>
              [] dir = "R" -> << i, j + 1 >>
    IN
    IF ~ Subscriptable(self.map, new_position) THEN Raise("IndexError", self)
    ELSE IF ~ is_wall(self, new_position) THEN
        IF is_box(self, new_position) THEN
            LET new_box_position ==
                    << new_position[1] + (new_position[1] - i),
                       new_position[2] + (new_position[2] - j) >>
            IN  IF ~ Subscriptable(self.map, new_box_position)
                THEN Raise("IndexError", self)
                ELSE IF can_push(self, new_box_position)
                THEN Return([ self |-> FALSE,
                              map |-> pushed_map(self, new_position,
                                                 new_box_position) ])
                ELSE Return([ self |-> TRUE, map |-> self.map ])
        ELSE Return([ self |-> FALSE, map |-> stepped_map(self, new_position) ])
    ELSE Return([ self |-> TRUE, map |-> self.map ])

\* move, the new state given the path cost of self
move_same_cost(self, dir, id) ==
    LET r == moved(self, dir)
    IN  IF r.raised # "no" THEN r
        ELSE IF r.value.self THEN Return(self)
        ELSE Return(GameState(r.value.map, self.current_cost, id))

\* self.move(direction): self, or GameState(new_map, self.current_cost + 1),
\* a new object, whose identity is id
move(self, dir, id) ==
    LET r == moved(self, dir)
    IN  IF r.raised # "no" THEN r
        ELSE IF r.value.self THEN Return(self)
        ELSE Return(GameState(r.value.map, self.current_cost + 1, id))

----------------------------------------------------------------------------
(* queue.Queue, queue.LifoQueue, queue.PriorityQueue *)

\* ord() of the one-character strings a path holds
ord(c) == CASE c = "D" -> 68 [] c = "L" -> 76 [] c = "R" -> 82 [] c = "U" -> 85

\* p < q for two lists of strings
RECURSIVE list_lt(_, _)
list_lt(p, q) ==
    IF p = << >> THEN q # << >>
    ELSE IF q = << >> THEN FALSE
    ELSE IF Head(p) = Head(q) THEN list_lt(Tail(p), Tail(q))
    ELSE ord(Head(p)) < ord(Head(q))

\* a == b for two GameState objects: object identity, as the class defines no __eq__
eq(a, b) == a.id = b.id

\* state in visited: hash and equality of object, i.e. identity
contains(set, state) == \E v \in set : eq(v, state)

\* a < b for two (key, state, path) tuples: "True", "False" or "TypeError"
\* (GameState defines no __lt__)
tuple_lt(a, b) ==
    IF a.key # b.key THEN (IF a.key < b.key THEN "True" ELSE "False")
    ELSE IF ~ eq(a.state, b.state) THEN "TypeError"
    ELSE IF list_lt(a.path, b.path) THEN "True" ELSE "False"

\* heapq._siftdown(heap, startpos, pos), positions 0-based
RECURSIVE siftdown_loop(_, _, _, _)
siftdown_loop(heap, startpos, pos, newitem) ==
    IF pos > startpos THEN
        LET parentpos == (pos - 1) \div 2
            parent == heap[parentpos + 1]
            c == tuple_lt(newitem, parent)
        IN  IF c = "TypeError" THEN Raise("TypeError", heap)
            ELSE IF c = "True"
            THEN siftdown_loop([heap EXCEPT ![pos + 1] = parent],
                               startpos, parentpos, newitem)
            ELSE Return([heap EXCEPT ![pos + 1] = newitem])
    ELSE Return([heap EXCEPT ![pos + 1] = newitem])

siftdown(heap, startpos, pos) ==
    siftdown_loop(heap, startpos, pos, heap[pos + 1])

\* heapq._siftup(heap, pos)
RECURSIVE siftup_loop(_, _, _, _)
siftup_loop(heap, startpos, pos, newitem) ==
    LET endpos == Len(heap)
        childpos == 2 * pos + 1
        rightpos == childpos + 1
    IN  IF childpos < endpos THEN
            LET c == IF rightpos < endpos
                     THEN tuple_lt(heap[childpos + 1], heap[rightpos + 1])
                     ELSE "True"
                child == IF c = "True" THEN childpos ELSE rightpos
            IN  IF c = "TypeError" THEN Raise("TypeError", heap)
                ELSE siftup_loop([heap EXCEPT ![pos + 1] = heap[child + 1]],
                                 startpos, child, newitem)
        ELSE siftdown_loop([heap EXCEPT ![pos + 1] = newitem],
                           startpos, pos, newitem)

siftup(heap, pos) == siftup_loop(heap, pos, pos, heap[pos + 1])

\* heapq.heappush(heap, item): the heap afterwards
heappush(heap, item) == siftdown(Append(heap, item), 0, Len(heap))

\* list.pop() in place of heappop: the last item of the list
heappop_last(heap) ==
    Return([item |-> heap[Len(heap)], heap |-> SubSeq(heap, 1, Len(heap) - 1)])

\* heapq.heappop(heap): [item, heap], or the exception
heappop(heap) ==
    LET lastelt == heap[Len(heap)]
        rest == SubSeq(heap, 1, Len(heap) - 1)
    IN  IF rest = << >> THEN Return([item |-> lastelt, heap |-> rest])
        ELSE LET r == siftup([rest EXCEPT ![1] = lastelt], 0)
             IN  IF r.raised # "no" THEN r
                 ELSE Return([item |-> rest[1], heap |-> r.value])

Searches == { "bfs", "dfs", "astar", "ucs", "greedy" }

Priority == { "astar", "ucs", "greedy" }

\* the first component of the tuples a priority strategy puts
key(strat, state) ==
    CASE strat = "astar" -> get_total_cost(state)
      [] strat = "ucs" -> get_current_cost(state)
      [] strat = "greedy" -> get_heuristic(state)

\* the tuple, with the path of the state expanded in place of new_path
item_old_path(strat, state, new_path) ==
    IF strat \in Priority
    THEN [ key |-> key(strat, state), state |-> state,
           path |-> SubSeq(new_path, 1, Len(new_path) - 1) ]
    ELSE [ state |-> state, path |-> SubSeq(new_path, 1, Len(new_path) - 1) ]

\* the tuple a strategy puts on its frontier
item(strat, state, new_path) ==
    IF strat \in Priority
    THEN [ key |-> key(strat, state), state |-> state, path |-> new_path ]
    ELSE [ state |-> state, path |-> new_path ]

\* frontier.put(item)
put(strat, queue, it) ==
    IF strat \in Priority THEN heappush(queue, it) ELSE Return(Append(queue, it))

\* frontier.get(): FIFO for Queue, LIFO for LifoQueue, heappop for PriorityQueue
get(strat, queue) ==
    CASE strat = "bfs" -> Return([item |-> Head(queue), heap |-> Tail(queue)])
      [] strat = "dfs" -> Return([item |-> queue[Len(queue)],
                                  heap |-> SubSeq(queue, 1, Len(queue) - 1)])
      [] OTHER -> heappop(queue)

----------------------------------------------------------------------------
(* Notions the properties are stated with, taken from the grid alone *)

Cells(map) == (0..(Len(map) - 1)) \X (0..(Len(map[1]) - 1))

BoxCells(map) == { p \in Cells(map) : Get(map, p) \in { "$", "*" } }

TargetCells(map) == { p \in Cells(map) : Get(map, p) \in { ".", "+", "*" } }

PlayerCells(map) == { p \in Cells(map) : Get(map, p) \in { "@", "+" } }

\* every box stands on a target
Solved(map) == BoxCells(map) \subseteq TargetCells(map)

\* the grid has a wall on each cell of its border
Enclosed(map) ==
    \A p \in Cells(map) :
        (p[1] \in { 0, Len(map) - 1 } \/ p[2] \in { 0, Len(map[1]) - 1 })
            => Get(map, p) = "#"

\* the grids one more move leads to
Successors(map) ==
    LET s == GameState(map, 0, 0)
        results == { moved(s, Directions[d]) : d \in 1..Len(Directions) }
    IN  { r.value.map : r \in { q \in results : q.raised = "no" } }

RECURSIVE ReachFrom(_, _)
ReachFrom(seen, new) ==
    IF new = {} THEN seen
    ELSE ReachFrom(seen \cup new,
                   UNION { Successors(m) : m \in new } \ (seen \cup new))

\* the grid configurations reachable from map by moves
Reach(map) == ReachFrom({}, { map })

Solvable(map) == \E m \in Reach(map) : Solved(m)

\* the least number of moves after which a grid of `new` or of its successors
\* is solved, d moves having led to `new`; inf if there is none
RECURSIVE DepthFrom(_, _, _)
DepthFrom(seen, new, d) ==
    IF \E m \in new : Solved(m) THEN d
    ELSE IF new = {} THEN inf
    ELSE DepthFrom(seen \cup new,
                   UNION { Successors(m) : m \in new } \ (seen \cup new), d + 1)

\* the length of the shortest sequence of moves that solves map
Depth(map) == DepthFrom({}, { map }, 0)

\* the directions in which a move from the grid map returns a new state
Changing(map) ==
    LET s == GameState(map, 0, 0)
    IN  { d \in 1..Len(Directions) :
            LET r == moved(s, Directions[d])
            IN  r.raised = "no" /\ ~ r.value.self }

\* the number of moves that return a new state, summed over the grids of set
RECURSIVE Edges(_)
Edges(set) ==
    IF set = {} THEN 0
    ELSE LET m == CHOOSE x \in set : TRUE
         IN  Cardinality(Changing(m)) + Edges(set \ { m })

\* what `reach` records of an initial grid
Facts(map) ==
    LET r == Reach(map)
    IN  [ count |-> Cardinality(r), solvable |-> \E m \in r : Solved(m),
          depth |-> Depth(map),
          edges |-> Edges({ m \in r : ~ Solved(m) }) ]

\* what calling move with each of the directions in turn returns, from state on
RECURSIVE Replay(_, _)
Replay(state, directions) ==
    IF directions = << >> THEN Return(state)
    ELSE LET m == move(state, Head(directions), state.id + 1)
         IN  IF m.raised # "no" THEN m ELSE Replay(m.value, Tail(directions))

\* each of the moves of directions, made in turn from state on, returns a
\* state whose grid differs from that of the state it is called on
RECURSIVE EveryMoveChanges(_, _)
EveryMoveChanges(state, directions) ==
    IF directions = << >> THEN TRUE
    ELSE LET m == move(state, Head(directions), state.id + 1)
         IN  /\ m.raised = "no"
             /\ m.value.map # state.map
             /\ EveryMoveChanges(m.value, Tail(directions))

\* the distance from position p to the nearest of the cells of set; inf if
\* there is none
Nearest(p, set) ==
    IF set = {} THEN inf
    ELSE LET ds == { abs(p[1] - t[1]) + abs(p[2] - t[2]) : t \in set }
         IN  CHOOSE d \in ds : \A e \in ds : d <= e

\* the sum, over the boxes of map, of the distance to the nearest target cell
RECURSIVE SumNearest(_, _)
SumNearest(boxes, targets) ==
    IF boxes = {} THEN 0
    ELSE LET b == CHOOSE x \in boxes : TRUE
         IN  add(Nearest(b, targets), SumNearest(boxes \ { b }, targets))

Heuristic(map) == SumNearest(BoxCells(map), TargetCells(map))

\* position one step from p in direction dir, in the grid's own geometry
Step(p, dir) ==
    CASE dir = "U" -> << p[1] - 1, p[2] >>
      [] dir = "D" -> << p[1] + 1, p[2] >>
      [] dir = "L" -> << p[1], p[2] - 1 >>
      [] dir = "R" -> << p[1], p[2] + 1 >>

PlayerOf(map) == CHOOSE p \in PlayerCells(map) : TRUE

\* the last call of move has returned: current_state.move(LastDir) = new_state
Moved == pc = "moves" /\ path # << >>

LastDir == Directions[direction]

\* the cell next to the player of current_state in the direction of the move
NextCell == Step(PlayerOf(current_state.map), LastDir)

\* the cell one step further
FurtherCell == Step(NextCell, LastDir)

\* both are cells of the grid
InGrid ==
    NextCell \in Cells(current_state.map) /\ FurtherCell \in Cells(current_state.map)

Searching == strategy \in Searches /\ pc \in { "while", "for", "returned", "done", "raised" }

----------------------------------------------------------------------------
(* The grids the program is started on: rectangular, exactly one player   *)
(* cell, either enclosed by a border of walls or without one.              *)

Symbols == { " ", "#", "$", ".", "@", "+", "*" }

Shapes ==
    { s \in (1..MaxHeight) \X (1..MaxCells) : s[1] * s[2] <= MaxCells }

Interiors ==
    UNION { { m \in [1..s[1] -> [1..s[2] -> Symbols \ { "#" }]] :
                Cardinality({ p \in (1..s[1]) \X (1..s[2]) :
                                m[p[1]][p[2]] \in { "@", "+" } }) = 1 }
            : s \in Shapes }

Walled(m) ==
    LET h == Len(m)
        w == Len(m[1])
    IN  [i \in 1..(h + 2) |->
            [j \in 1..(w + 2) |->
                IF i = 1 \/ i = h + 2 \/ j = 1 \/ j = w + 2 THEN "#"
                ELSE m[i - 1][j - 1]]]

Grids == Interiors \cup { Walled(m) : m \in Interiors }

Strategies == Searches \cup { "custom", "random" }

----------------------------------------------------------------------------
(* class Solver *)

\* Solver(initial_state, strategy), line 17-21, on a freshly built initial state
Init ==
    \E grid \in Grids :
        \E s \in { GameState(grid, 0, 0) }, r \in { Facts(grid) } :
            \E strat \in Strategies :
                /\ initial_state = s
                /\ strategy = strat
                /\ solution = None
                /\ time = "None"
                /\ pc = "created"
                /\ frontier = << >>
                /\ visited = {}
                /\ current_state = s
                /\ path = << >>
                /\ new_state = s
                /\ direction = 0
                /\ ret = None
                /\ raised = "no"
                /\ nextId = 1
                /\ pops = 0
                /\ prev = << "unset" >>
                /\ memory = << >>
                /\ objects = << >>
                /\ reach = r

\* solve(), lines 24-34, and the lines before the loop of the strategy chosen
SolveSearch ==
    /\ pc = "created"
    /\ strategy \in Searches
    /\ frontier' = put(strategy, << >>, item(strategy, initial_state, << >>)).value
    /\ visited' = {}
    /\ pops' = 0
    /\ pc' = "while"
    /\ UNCHANGED << memory, objects, reach, initial_state, strategy, solution, time, current_state, path,
                    new_state, direction, ret, raised, nextId, prev >>

\* solve(), lines 35-36, and custom(), lines 156-158
SolveCustom ==
    /\ pc = "created"
    /\ strategy = "custom"
    /\ ret' = << "U", "U" >>
    /\ pc' = "returned"
    /\ UNCHANGED << memory, objects, reach, initial_state, strategy, solution, time, frontier, visited,
                    current_state, path, new_state, direction, raised, nextId,
                    pops, prev >>

\* solve() with an else branch that does not raise: line 39 is reached
SolveInvalidPasses ==
    /\ pc = "created"
    /\ strategy \notin Searches \cup { "custom" }
    /\ time' = "set"
    /\ pc' = "done"
    /\ UNCHANGED << memory, objects, reach, initial_state, strategy, solution,
                    frontier, visited, current_state, path, new_state,
                    direction, ret, raised, nextId, pops, prev >>

\* solve(), lines 37-38
SolveInvalid ==
    /\ pc = "created"
    /\ strategy \notin Searches \cup { "custom" }
    /\ raised' = "Exception"
    /\ pc' = "raised"
    /\ UNCHANGED << memory, objects, reach, initial_state, strategy, solution, time, frontier, visited,
                    current_state, path, new_state, direction, ret, nextId,
                    pops, prev >>

\* the head of the loop with the goal test passed over for the entry put
\* before the loop
PopRootUntested ==
    /\ pc = "while"
    /\ frontier # << >>
    /\ pops < MaxPops
    /\ pops' = pops + 1
    /\ LET g == get(strategy, frontier)
       IN  IF g.raised # "no"
           THEN /\ raised' = g.raised
                /\ pc' = "raised"
                /\ UNCHANGED << frontier, visited, current_state, path,
                                direction, ret >>
           ELSE /\ frontier' = g.value.heap
                /\ current_state' = g.value.item.state
                /\ path' = g.value.item.path
                /\ raised' = raised
                /\ IF check_solved(g.value.item.state) /\ g.value.item.path # << >>
                   THEN /\ ret' = g.value.item.path
                        /\ pc' = "returned"
                        /\ UNCHANGED << visited, direction >>
                   ELSE IF ~ contains(visited, g.value.item.state)
                   THEN /\ visited' = visited \cup { g.value.item.state }
                        /\ direction' = 1
                        /\ pc' = "for"
                        /\ ret' = ret
                   ELSE /\ pc' = "while"
                        /\ UNCHANGED << visited, direction, ret >>
    /\ UNCHANGED << memory, objects, reach, initial_state, strategy, solution, time, new_state, nextId,
                    prev >>

\* one pass through the head of the while loop: lines 47-54 (bfs), and the same
\* lines of dfs, astar, ucs and greedy
Pop ==
    /\ pc = "while"
    /\ frontier # << >>
    /\ pops < MaxPops
    /\ pops' = pops + 1
    /\ LET g == get(strategy, frontier)
       IN  IF g.raised # "no"
           THEN /\ raised' = g.raised
                /\ pc' = "raised"
                /\ UNCHANGED << frontier, visited, current_state, path,
                                direction, ret >>
           ELSE /\ frontier' = g.value.heap
                /\ current_state' = g.value.item.state
                /\ path' = g.value.item.path
                /\ raised' = raised
                /\ IF check_solved(g.value.item.state)
                   THEN /\ ret' = g.value.item.path
                        /\ pc' = "returned"
                        /\ UNCHANGED << visited, direction >>
                   ELSE IF ~ contains(visited, g.value.item.state)
                   THEN /\ visited' = visited \cup { g.value.item.state }
                        /\ direction' = 1
                        /\ pc' = "for"
                        /\ ret' = ret
                   ELSE /\ pc' = "while"
                        /\ UNCHANGED << visited, direction, ret >>
    /\ UNCHANGED << memory, objects, reach, initial_state, strategy, solution, time, new_state, nextId,
                    prev >>

\* one pass through the for loop: lines 56-60 (bfs), and the same lines of the
\* other strategies
Expand ==
    /\ pc = "for"
    /\ LET d == Directions[direction]
           m == move(current_state, d, nextId)
           q == IF ~ contains(visited, m.value)
                THEN put(strategy, frontier,
                         item(strategy, m.value, Append(path, d)))
                ELSE Return(frontier)
       IN  IF m.raised # "no"
           THEN /\ raised' = m.raised
                /\ pc' = "raised"
                /\ UNCHANGED << frontier, new_state, direction, nextId >>
           ELSE /\ new_state' = m.value
                /\ nextId' = IF m.value.id = nextId THEN nextId + 1 ELSE nextId
                /\ IF q.raised # "no"
                   THEN /\ raised' = q.raised
                        /\ pc' = "raised"
                        /\ UNCHANGED << frontier, direction >>
                   ELSE /\ frontier' = q.value
                        /\ raised' = raised
                        /\ IF direction < Len(Directions)
                           THEN direction' = direction + 1 /\ pc' = "for"
                           ELSE direction' = direction /\ pc' = "while"
    /\ UNCHANGED << memory, objects, reach, initial_state, strategy, solution, time, visited,
                    current_state, path, ret, pops, prev >>

\* the loop test fails: `return None`, line 62 (bfs) and its likes
Exhausted ==
    /\ pc = "while"
    /\ frontier = << >>
    /\ ret' = None
    /\ pc' = "returned"
    /\ UNCHANGED << memory, objects, reach, initial_state, strategy, solution, time, frontier, visited,
                    current_state, path, new_state, direction, raised, nextId,
                    pops, prev >>

\* solve() stores what the strategy returned, and the time: lines 26-39
SolveEnd ==
    /\ pc = "returned"
    /\ solution' = ret
    /\ time' = "set"
    /\ pc' = "done"
    /\ UNCHANGED << memory, objects, reach, initial_state, strategy, frontier, visited, current_state,
                    path, new_state, direction, ret, raised, nextId, pops, prev >>

\* After a breadth-first run, a second Solver is made for the same initial
\* state, with strategy ucs or astar (Solver.__init__, lines 17-21); prev
\* keeps the first solver's solution.
NewSolver ==
    /\ pc = "done"
    /\ strategy = "bfs"
    /\ prev = << "unset" >>
    /\ \E strat \in { "ucs", "astar" } : strategy' = strat
    /\ prev' = solution
    /\ solution' = None
    /\ time' = "None"
    /\ pc' = "created"
    /\ frontier' = << >>
    /\ visited' = {}
    /\ current_state' = initial_state
    /\ path' = << >>
    /\ new_state' = initial_state
    /\ direction' = 0
    /\ ret' = None
    /\ pops' = 0
    /\ UNCHANGED << memory, objects, reach, initial_state, raised, nextId >>

Next ==
    \/ SolveSearch
    \/ SolveCustom
    \/ SolveInvalid
    \/ Pop
    \/ Expand
    \/ Exhausted
    \/ SolveEnd
    \/ NewSolver

Spec == Init /\ [][Next]_vars

\* the loop's steps are taken as long as they can be
FairSpec == Spec /\ WF_vars(Next)

----------------------------------------------------------------------------
(* Moves applied one after another to a state, outside any search *)

MoveInit ==
    \E grid \in Grids :
        \E s \in { GameState(grid, 0, 0) } :
            /\ initial_state = s
            /\ strategy = "none"
            /\ solution = None
            /\ time = "None"
            /\ pc = "moves"
            /\ frontier = << >>
            /\ visited = {}
            /\ current_state = s
            /\ path = << >>
            /\ new_state = s
            /\ direction = 0
            /\ ret = None
            /\ raised = "no"
            /\ nextId = 1
            /\ pops = 0
            /\ prev = << "unset" >>
            /\ memory = << >>
            /\ objects = << >>
            /\ reach = << "unset" >>

\* new_state = current_state.move(Directions[d]), called on the last result
Move(d) ==
    /\ pc = "moves"
    /\ Len(path) < MaxMoves
    /\ LET m == move(new_state, Directions[d], nextId)
       IN  /\ current_state' = new_state
           /\ direction' = d
           /\ path' = Append(path, Directions[d])
           /\ IF m.raised # "no"
              THEN /\ raised' = m.raised
                   /\ pc' = "raised"
                   /\ UNCHANGED << new_state, nextId >>
              ELSE /\ new_state' = m.value
                   /\ nextId' = IF m.value.id = nextId THEN nextId + 1 ELSE nextId
                   /\ UNCHANGED << raised, pc >>
    /\ UNCHANGED << memory, objects, reach, initial_state, strategy, solution, time, frontier, visited,
                    ret, pops, prev >>

MoveNext == \E d \in 1..Len(Directions) : Move(d)

MoveSpec == MoveInit /\ [][MoveNext]_vars

----------------------------------------------------------------------------
(* GameState.__init__ as written, statement by statement.  The object under  *)
(* construction is its attribute dictionary: a function from the names of    *)
(* the attributes assigned so far to their values.                           *)

\* the new object before __init__ has assigned anything
object == [name \in {} |-> None]

\* self.name = value
setattr(self, name, value) == [n \in DOMAIN self \cup { name } |->
                                  IF n = name THEN value ELSE self[n]]

\* self.name can be read
hasattr(self, name) == name \in DOMAIN self

\* find_player(self), lines 39-45, reading self.height, self.width, self.map
self_find_player(self) ==
    IF ~ hasattr(self, "height") THEN Raise("AttributeError", self)
    ELSE IF self.height > 0 /\ ~ hasattr(self, "width")
    THEN Raise("AttributeError", self)
    ELSE LET hits == SelectSeq(Scan(self.height, self.width),
                               LAMBDA p : Get(self.map, p) \in { "@", "+" })
         IN  Return(IF hits = << >> THEN None ELSE hits[1])

\* find_boxes(self), lines 47-54
self_find_boxes(self) ==
    IF ~ hasattr(self, "height") THEN Raise("AttributeError", self)
    ELSE IF self.height > 0 /\ ~ hasattr(self, "width")
    THEN Raise("AttributeError", self)
    ELSE Return(SelectSeq(Scan(self.height, self.width),
                          LAMBDA p : Get(self.map, p) \in { "$", "*" }))

\* find_targets(self), lines 57-64
self_find_targets(self) ==
    IF ~ hasattr(self, "height") THEN Raise("AttributeError", self)
    ELSE IF self.height > 0 /\ ~ hasattr(self, "width")
    THEN Raise("AttributeError", self)
    ELSE Return(SelectSeq(Scan(self.height, self.width),
                          LAMBDA p : Get(self.map, p) \in { ".", "*" }))

\* check_solved(self), lines 191-193, reading self.boxes and self.targets
self_check_solved(self) ==
    IF ~ hasattr(self, "boxes") THEN Raise("AttributeError", self)
    ELSE IF self.boxes # << >> /\ ~ hasattr(self, "targets")
    THEN Raise("AttributeError", self)
    ELSE Return(all_in(self.boxes, self.targets))

\* the statements of __init__, in the order of lines 25-32
Statements ==
    << "map", "player", "boxes", "targets", "is_solved", "current_cost",
       "height", "width" >>

\* the value the k-th statement assigns, or the exception its right side raises
assigned(self, k, map, current_cost) ==
    CASE Statements[k] = "map" -> Return(map)
      [] Statements[k] = "player" -> self_find_player(self)
      [] Statements[k] = "boxes" -> self_find_boxes(self)
      [] Statements[k] = "targets" -> self_find_targets(self)
      [] Statements[k] = "is_solved" -> self_check_solved(self)
      [] Statements[k] = "current_cost" -> Return(current_cost)
      [] Statements[k] = "height" -> Return(Len(self.map))
      [] Statements[k] = "width" -> Return(Len(self.map[1]))

\* __init__(self, map, current_cost) from its k-th statement on: the object
\* constructed, or the exception raised and the object as far as it got
RECURSIVE init_from(_, _, _, _)
init_from(self, k, map, current_cost) ==
    IF k > Len(Statements) THEN Return(self)
    ELSE LET v == assigned(self, k, map, current_cost)
         IN  IF v.raised # "no" THEN Raise(v.raised, self)
             ELSE init_from(setattr(self, Statements[k], v.value), k + 1,
                            map, current_cost)

\* GameState(map, current_cost), lines 24-32
GameState_init(map, current_cost) == init_from(object, 1, map, current_cost)

\* grids without a player cell
Playerless ==
    UNION { [1..s[1] -> [1..s[2] -> Symbols \ { "#", "@", "+" }]] : s \in Shapes }

\* the path costs a state is constructed with
Costs == 0..1

\* A call GameState(map, current_cost) is about to be made: current_state
\* holds its arguments.
ConstructInit ==
    \E grid \in Grids \cup Playerless \cup { Walled(m) : m \in Playerless } :
        \E c \in Costs :
            /\ initial_state = None
            /\ strategy = "none"
            /\ solution = None
            /\ time = "None"
            /\ pc = "call"
            /\ frontier = << >>
            /\ visited = {}
            /\ current_state = [ map |-> grid, current_cost |-> c ]
            /\ path = << >>
            /\ new_state = object
            /\ direction = 0
            /\ ret = None
            /\ raised = "no"
            /\ nextId = 1
            /\ pops = 0
            /\ prev = << "unset" >>
            /\ memory = << >>
            /\ objects = << >>
            /\ reach = << "unset" >>

\* the call runs: new_state is the object, as far as __init__ got
Construct ==
    /\ pc = "call"
    /\ LET r == GameState_init(current_state.map, current_state.current_cost)
       IN  /\ new_state' = r.value
           /\ raised' = r.raised
           /\ pc' = IF r.raised = "no" THEN "constructed" ELSE "raised"
    /\ UNCHANGED << memory, objects, reach, initial_state, strategy, solution, time, frontier,
                    visited, current_state, path, direction, ret, nextId, pops,
                    prev >>

ConstructNext == Construct

ConstructSpec == ConstructInit /\ [][ConstructNext]_vars

----------------------------------------------------------------------------
(* move with the maps as Python holds them: a map is a list of row lists,    *)
(* each row a list object of its own at an address of the heap; an object   *)
(* of GameState refers to its rows by address.                               *)

\* the map whose rows are at the addresses rows
deref(h, rows) == [k \in 1..Len(rows) |-> h[rows[k]]]

\* map[i][j] for the map whose rows are at the addresses rows
load(h, rows, position) ==
    LET a == rows[Index(position[1], Len(rows))]
    IN  h[a][Index(position[2], Len(h[a]))]

\* map[i][j] = symbol for the map whose rows are at the addresses rows
store(h, rows, position, symbol) ==
    LET a == rows[Index(position[1], Len(rows))]
    IN  [h EXCEPT ![a][Index(position[2], Len(h[a]))] = symbol]

\* list(self.map): a new outer list of the same row objects
copy_rows_shared(h, rows) == [ heap |-> h, rows |-> rows ]

\* [list(row) for row in self.map], lines 165 and 180: each row copied to a
\* new list object
copy_rows(h, rows) ==
    [ heap |-> h \o deref(h, rows),
      rows |-> [k \in 1..Len(rows) |-> Len(h) + k] ]

\* lines 166-171 and 181-186: the writes to new_map for the player, reading
\* self.map
write_player(h, self_map, new_map, player, new_position) ==
    LET h1 == store(h, new_map, player, " ")
        h2 == IF load(h1, self_map, player) = "+"
              THEN store(h1, new_map, player, ".") ELSE h1
        h3 == store(h2, new_map, new_position, "@")
    IN  IF load(h3, self_map, new_position) = "."
        THEN store(h3, new_map, new_position, "+") ELSE h3

\* lines 172-174: the writes to new_map for the box
write_box(h, self_map, new_map, new_box_position) ==
    LET h1 == store(h, new_map, new_box_position, "$")
    IN  IF load(h1, self_map, new_box_position) = "."
        THEN store(h1, new_map, new_box_position, "*") ELSE h1

\* the object self as move reads it: its attributes, and its map in the heap
read(h, self) == [self.made EXCEPT !.map = deref(h, self.rows)]

\* self.move(dir), lines 148-189, on the heap h: the heap afterwards and the
\* object returned (self, or a new one with identity id)
heap_move(h, self, dir, id) ==
    LET me == read(h, self)
        r == moved(me, dir)
    IN  IF r.raised # "no" THEN Raise(r.raised, [ heap |-> h, object |-> self ])
        ELSE IF r.value.self THEN Return([ heap |-> h, object |-> self ])
        ELSE
        LET new_position == Step(me.player, dir)
            new_box_position == Step(new_position, dir)
            c == copy_rows(h, self.rows)
            h1 == write_player(c.heap, self.rows, c.rows, me.player, new_position)
            h2 == IF is_box(me, new_position)
                  THEN write_box(h1, self.rows, c.rows, new_box_position)
                  ELSE h1
        IN  Return([ heap |-> h2,
                     object |-> [ rows |-> c.rows,
                                  made |-> GameState(deref(h2, c.rows),
                                                     me.current_cost + 1, id) ] ])

\* A state has been constructed on a grid whose rows are list objects.
HeapInit ==
    \E grid \in Grids :
        \E s \in { GameState(grid, 0, 0) } :
            /\ initial_state = s
            /\ strategy = "none"
            /\ solution = None
            /\ time = "None"
            /\ pc = "heap"
            /\ frontier = << >>
            /\ visited = {}
            /\ current_state = s
            /\ path = << >>
            /\ new_state = s
            /\ direction = 0
            /\ ret = None
            /\ raised = "no"
            /\ nextId = 1
            /\ pops = 0
            /\ prev = << "unset" >>
            /\ reach = << "unset" >>
            /\ memory = grid
            /\ objects = << [ rows |-> [k \in 1..Len(grid) |-> k], made |-> s ] >>

\* objects[k].move(Directions[d]), on any of the objects made so far
HeapMove(k, d) ==
    /\ pc = "heap"
    /\ Len(path) < MaxMoves
    /\ LET m == heap_move(memory, objects[k], Directions[d], nextId)
       IN  /\ current_state' = read(memory, objects[k])
           /\ direction' = d
           /\ path' = Append(path, Directions[d])
           /\ IF m.raised # "no"
              THEN /\ raised' = m.raised
                   /\ pc' = "raised"
                   /\ UNCHANGED << new_state, nextId, memory, objects >>
              ELSE /\ memory' = m.value.heap
                   /\ new_state' = read(m.value.heap, m.value.object)
                   /\ IF m.value.object.made.id = nextId
                      THEN /\ nextId' = nextId + 1
                           /\ objects' = Append(objects, m.value.object)
                      ELSE UNCHANGED << nextId, objects >>
                   /\ UNCHANGED << raised, pc >>
    /\ UNCHANGED << reach, initial_state, strategy, solution, time, frontier,
                    visited, ret, pops, prev >>

HeapNext == \E k \in 1..Len(objects), d \in 1..Len(Directions) : HeapMove(k, d)

HeapSpec == HeapInit /\ [][HeapNext]_vars

----------------------------------------------------------------------------
(* Properties *)

C11_Constructed ==
    pc \in { "constructed", "raised" } =>
        LET map == current_state.map
        IN  /\ raised = "no"
            /\ pc = "constructed"
            /\ new_state.map = map
            /\ PlayerCells(map) # {} => new_state.player \in PlayerCells(map)
            /\ PlayerCells(map) = {} => new_state.player = None
            /\ Elems(new_state.boxes) = BoxCells(map)
            /\ Elems(new_state.targets) \subseteq TargetCells(map)
            /\ new_state.current_cost = current_state.current_cost
            /\ new_state.height = Len(map)
            /\ new_state.width = Len(map[1])

C13_InvalidStrategy ==
    (strategy \notin Searches \cup { "custom" } /\ pc # "created") =>
        /\ pc = "raised"
        /\ raised = "Exception"
        /\ pops = 0
        /\ frontier = << >>
        /\ visited = {}
        /\ nextId = 1
        /\ ret = None
        /\ solution = None
        /\ time = "None"

C13_Witness ==
    /\ strategy = "random"
    /\ pc = "raised"
    /\ raised = "Exception"
    /\ solution = None
    /\ time = "None"

====
